---- MODULE Spec2Model ----
(***************************************************************************)
(* The create-trip route action (POST /api/create-trip) of the travel      *)
(* agency dashboard: validation of the request body, prompt construction,  *)
(* the text-generation call, parsing, image search and persistence.        *)
(* One invocation of the action is one behaviour; every await of the       *)
(* handler is a suspension point and therefore a step boundary.            *)
(***************************************************************************)
EXTENDS Integers, Sequences, FiniteSets, TLC

(***************************************************************************)
(* Bounds of the model.                                                    *)
(***************************************************************************)
MaxInterests == 2   \* longest interests array in a request body
MaxResults == 4     \* longest results array in an image-search body

(***************************************************************************)
(* JavaScript values of the request fields.  Every value is a record of    *)
(* the same shape: t is the type tag, s the string, n the number, a the    *)
(* array (of strings).                                                     *)
(***************************************************************************)
Undefined == [t |-> "undefined", s |-> "", n |-> 0, a |-> <<>>]

Null == [t |-> "null", s |-> "", n |-> 0, a |-> <<>>]

Str(x) == [t |-> "string", s |-> x, n |-> 0, a |-> <<>>]

Num(k) == [t |-> "number", s |-> "", n |-> k, a |-> <<>>]

Arr(q) == [t |-> "array", s |-> "", n |-> 0, a |-> q]

\* !v is FALSE: undefined, null, "" and 0 are falsy, every array is truthy
Truthy(v) ==
    CASE v.t = "undefined" -> FALSE
      [] v.t = "null" -> FALSE
      [] v.t = "string" -> v.s # ""
      [] v.t = "number" -> v.n # 0
      [] v.t = "array" -> TRUE

IsArray(v) == v.t = "array"

RECURSIVE Join(_, _)
\* Array.prototype.join on an array of strings
Join(q, sep) ==
    IF q = <<>> THEN ""
    ELSE IF Len(q) = 1 THEN q[1]
    ELSE q[1] \o sep \o Join(Tail(q), sep)

\* `${v}` in a template literal
TemplateStr(v) ==
    CASE v.t = "undefined" -> "undefined"
      [] v.t = "null" -> "null"
      [] v.t = "string" -> v.s
      [] v.t = "number" -> ToString(v.n)
      [] v.t = "array" -> Join(v.a, ",")

Quote(x) == "\"" \o x \o "\""

\* JSON.stringify of an array of strings
JSONStringifyArray(q) == "[" \o Join([i \in 1..Len(q) |-> Quote(q[i])], ",") \o "]"

\* all sequences over S of length at most k
SeqsUpTo(S, k) == UNION {[1..m -> S] : m \in 0..k}

(***************************************************************************)
(* The request bodies the action is driven with.                           *)
(***************************************************************************)
FieldNames == {"country", "numberOfDays", "travelStyle", "interests", "budget", "groupType", "userId"}

CountryValues == {Undefined, Str(""), Str("Japan")}

NumberOfDaysValues == {Undefined, Num(0), Num(1), Num(10), Num(11)}

TravelStyleValues == {Undefined, Str("Luxury")}

InterestWords == {"", "food", "temples"}

InterestsValues ==
    {Undefined} \cup {Str(w) : w \in InterestWords}
                \cup {Arr(q) : q \in SeqsUpTo(InterestWords, MaxInterests)}

BudgetValues == {Undefined, Str("Premium")}

GroupTypeValues == {Undefined, Str("Couple")}

UserIdValues == {Undefined, Str("user1")}

ObjectBodies ==
    [country : CountryValues, numberOfDays : NumberOfDaysValues,
     travelStyle : TravelStyleValues, interests : InterestsValues,
     budget : BudgetValues, groupType : GroupTypeValues, userId : UserIdValues]

NoFields == [f \in FieldNames |-> Undefined]

\* a request body: text that is not JSON, the JSON value null, or a JSON object
RequestBodies ==
    {[kind |-> "invalid", fields |-> NoFields], [kind |-> "null", fields |-> NoFields]}
    \cup {[kind |-> "object", fields |-> o] : o \in ObjectBodies}

(***************************************************************************)
(* Thrown values.  The catch clause distinguishes Error instances from     *)
(* any other thrown value.                                                 *)
(***************************************************************************)
Err(m) == [isError |-> TRUE, message |-> m]

NonError == [isError |-> FALSE, message |-> ""]

BodySyntaxError == Err("Unexpected token in JSON")

DestructureTypeError == Err("Cannot destructure property 'country' of 'requestData' as it is null.")

\* what generateContent (or response.text()) can throw
GenErrors == {Err("[GoogleGenerativeAI Error]: Error fetching from generativelanguage"), NonError}

FetchTypeError == Err("fetch failed")

ImageJsonSyntaxError == Err("Unexpected token R in JSON at position 0")

ImageUrlsTypeError == Err("Cannot read properties of results")

\* what createDocument can throw
CreateErrors == {Err("Invalid document structure"), NonError}

(***************************************************************************)
(* Validation and normalisation of the request (lines 20-25).              *)
(***************************************************************************)
\* the condition of the if statement that answers 400
MissingRequired(f) ==
    \/ ~Truthy(f.country)
    \/ ~Truthy(f.numberOfDays)
    \/ ~Truthy(f.travelStyle)
    \/ ~Truthy(f.interests)
    \/ ~Truthy(f.budget)
    \/ ~Truthy(f.groupType)
    \/ ~Truthy(f.userId)

\* Array.isArray(interests) ? interests : [interests]
InterestsArray(interests) ==
    IF IsArray(interests) THEN interests.a ELSE <<TemplateStr(interests)>>

(***************************************************************************)
(* The prompt (lines 30-75).  NL is the line break and indentation of the  *)
(* template literal; the emoji of the fixed schema text are left out.      *)
(***************************************************************************)
NL == "\n        "

PromptSchemaTail ==
    "\"bestTimeToVisit\": [" \o NL
    \o "  'Season (from month to month): reason to visit'," \o NL
    \o "  'Season (from month to month): reason to visit'," \o NL
    \o "  'Season (from month to month): reason to visit'," \o NL
    \o "  'Season (from month to month): reason to visit'" \o NL
    \o "]," \o NL
    \o "\"weatherInfo\": [" \o NL
    \o "  'Season: temperature range in Celsius (temperature range in Fahrenheit)'," \o NL
    \o "  'Season: temperature range in Celsius (temperature range in Fahrenheit)'," \o NL
    \o "  'Season: temperature range in Celsius (temperature range in Fahrenheit)'," \o NL
    \o "  'Season: temperature range in Celsius (temperature range in Fahrenheit)'" \o NL
    \o "]," \o NL
    \o "\"location\": {" \o NL
    \o "  \"city\": \"name of the city or region\"," \o NL
    \o "  \"coordinates\": [latitude, longitude]," \o NL
    \o "  \"openStreetMap\": \"link to open street map\"" \o NL
    \o "}," \o NL
    \o "\"itinerary\": [" \o NL
    \o "{" \o NL
    \o "  \"day\": 1," \o NL
    \o "  \"location\": \"City/Region Name\"," \o NL
    \o "  \"activities\": [" \o NL
    \o "    {\"time\": \"Morning\", \"description\": \"Visit the local historic castle and enjoy a scenic walk\"}," \o NL
    \o "    {\"time\": \"Afternoon\", \"description\": \"Explore a famous art museum with a guided tour\"}," \o NL
    \o "    {\"time\": \"Evening\", \"description\": \"Dine at a rooftop restaurant with local wine\"}" \o NL
    \o "  ]" \o NL
    \o "}," \o NL
    \o "..." \o NL
    \o "]" \o NL
    \o "}"

Prompt(f, interestsArray) ==
    "Generate a " \o TemplateStr(f.numberOfDays) \o "-day travel itinerary for "
    \o TemplateStr(f.country) \o " based on the following user information:" \o NL
    \o "Budget: '" \o TemplateStr(f.budget) \o "'" \o NL
    \o "Interests: '" \o Join(interestsArray, ", ") \o "'" \o NL
    \o "TravelStyle: '" \o TemplateStr(f.travelStyle) \o "'" \o NL
    \o "GroupType: '" \o TemplateStr(f.groupType) \o "'" \o NL
    \o "Return the itinerary and lowest estimated price in a clean, non-markdown JSON format with the following structure:" \o NL
    \o "{" \o NL
    \o "\"name\": \"A descriptive title for the trip\"," \o NL
    \o "\"description\": \"A brief description of the trip and its highlights not exceeding 100 words\"," \o NL
    \o "\"estimatedPrice\": \"Lowest average price for the trip in USD, e.g.$price\"," \o NL
    \o "\"duration\": " \o TemplateStr(f.numberOfDays) \o "," \o NL
    \o "\"budget\": \"" \o TemplateStr(f.budget) \o "\"," \o NL
    \o "\"travelStyle\": \"" \o TemplateStr(f.travelStyle) \o "\"," \o NL
    \o "\"country\": \"" \o TemplateStr(f.country) \o "\"," \o NL
    \o "\"interests\": " \o JSONStringifyArray(interestsArray) \o "," \o NL
    \o "\"groupType\": \"" \o TemplateStr(f.groupType) \o "\"," \o NL
    \o PromptSchemaTail

(***************************************************************************)
(* The image search (lines 83-92).                                         *)
(***************************************************************************)
UnsplashApiKey == "UNSPLASH_ACCESS_KEY"

\* the value of the query parameter of the image-search URL
ImageQuery(f, interestsArray) ==
    TemplateStr(f.country) \o " " \o Join(interestsArray, ", ") \o " " \o TemplateStr(f.travelStyle)

ImageSearchUrl(f, interestsArray) ==
    "https://api.unsplash.com/search/photos?query=" \o ImageQuery(f, interestsArray)
    \o "&client_id=" \o UnsplashApiKey

\* an element of results: null, or an object whose urls.regular may be absent
ResultNull == [isObject |-> FALSE, regular |-> Undefined]

ResultNoUrl == [isObject |-> TRUE, regular |-> Undefined]

ResultUrl(u) == [isObject |-> TRUE, regular |-> Str(u)]

ResultValues ==
    {ResultNull, ResultNoUrl,
     ResultUrl("https://images.unsplash.com/a"), ResultUrl("https://images.unsplash.com/b")}

\* the results field of the image-search body: t is its JavaScript type
ResultsFieldValues ==
    {[t |-> k, a |-> <<>>] : k \in {"undefined", "null", "string", "number"}}
    \cup {[t |-> "array", a |-> q] : q \in SeqsUpTo(ResultValues, MaxResults)}

\* the parsed image-search body: the JSON value null, or an object
ImageDataValues ==
    {[isObject |-> FALSE, results |-> [t |-> "undefined", a |-> <<>>]]}
    \cup {[isObject |-> TRUE, results |-> r] : r \in ResultsFieldValues}

NoImageData == [isObject |-> FALSE, results |-> [t |-> "undefined", a |-> <<>>]]

\* what fetch resolves with: json is whether the body text is JSON at all
ImageResponses ==
    {[status |-> st, ok |-> (st = 200), json |-> FALSE, data |-> NoImageData] : st \in {200, 403}}
    \cup {[status |-> st, ok |-> (st = 200), json |-> TRUE, data |-> d] :
            st \in {200, 403}, d \in ImageDataValues}

NoImageResponse == [status |-> 0, ok |-> FALSE, json |-> FALSE, data |-> NoImageData]

\* q.slice(0, 3)
Slice3(q) == SubSeq(q, 1, IF Len(q) < 3 THEN Len(q) ELSE 3)

\* result.urls?.regular || null
RegularOrNull(r) == IF Truthy(r.regular) THEN r.regular ELSE Null

\* imageData.results?.slice(0,3).map(result => result.urls?.regular || null) || []
\* threw: reading results of null, calling slice or map on a value that has
\* none, or reading urls of a null element raises a TypeError
ImageUrlsOf(imageData) ==
    LET r == imageData.results
        sl == Slice3(r.a)
    IN  IF ~imageData.isObject THEN [threw |-> TRUE, value |-> <<>>]
        ELSE IF r.t \in {"undefined", "null"} THEN [threw |-> FALSE, value |-> <<>>]
        ELSE IF r.t # "array" THEN [threw |-> TRUE, value |-> <<>>]
        ELSE IF \E i \in 1..Len(sl) : ~sl[i].isObject THEN [threw |-> TRUE, value |-> <<>>]
        ELSE [threw |-> FALSE, value |-> [i \in 1..Len(sl) |-> RegularOrNull(sl[i])]]

(***************************************************************************)
(* The text the model returns and its parsing (line 81).                   *)
(***************************************************************************)
\* a parsed itinerary: its duration field and the number of day entries
TripValues == {[duration |-> 10, itinerary |-> 2], [duration |-> 1, itinerary |-> 1]}

NoTrip == [duration |-> 0, itinerary |-> 0]

\* JSON.stringify(trip)
JSONStringifyTrip(t) ==
    "{\"duration\":" \o ToString(t.duration) \o ",\"itinerary\":["
    \o Join([i \in 1..t.itinerary |-> "{\"day\":" \o ToString(i) \o "}"], ",") \o "]}"

\* the marker of a fenced code block (three backticks) as one token
Fence == "<fence>"

Fences == {"none", "plain", "json"}

\* what the model writes between the fences: an itinerary as JSON, or prose
Payloads == {JSONStringifyTrip(o) : o \in TripValues} \cup {"Sorry, I cannot help with that."}

\* a text as its sequence of tokens: bare, fenced, or fenced and tagged json
Render(fc, p) ==
    CASE fc = "none" -> <<p>>
      [] fc = "plain" -> <<Fence, "\n", p, "\n", Fence>>
      [] fc = "json" -> <<Fence, "json", "\n", p, "\n", Fence>>

\* the texts textResult.response.text() can return
RawTexts == {Render(fc, p) : fc \in Fences, p \in Payloads}

NoText == <<>>

MalformedItineraryError == Err("Unexpected token S in JSON at position 0")

\* drops the opening marker with its language tag
StripOpening(t) ==
    IF Len(t) >= 1 /\ t[1] = Fence
    THEN IF Len(t) >= 2 /\ t[2] = "\n" THEN SubSeq(t, 3, Len(t))
         ELSE IF Len(t) >= 3 /\ t[3] = "\n" THEN SubSeq(t, 4, Len(t))
         ELSE Tail(t)
    ELSE t

\* drops the closing marker
StripClosing(t) ==
    IF Len(t) >= 1 /\ t[Len(t)] = Fence
    THEN IF Len(t) >= 2 /\ t[Len(t) - 1] = "\n" THEN SubSeq(t, 1, Len(t) - 2)
         ELSE SubSeq(t, 1, Len(t) - 1)
    ELSE t

\* JSON.parse: the itinerary whose JSON text this is, or a SyntaxError
JSONParse(t) ==
    IF Len(t) = 1 /\ \E o \in TripValues : JSONStringifyTrip(o) = t[1]
    THEN [threw |-> FALSE, value |-> CHOOSE o \in TripValues : JSONStringifyTrip(o) = t[1]]
    ELSE [threw |-> TRUE, value |-> NoTrip]

\* parseMarkdownToJson stripping only a fence tagged json
parseMarkdownToJson_jsonOnly(t) ==
    IF Len(t) >= 2 /\ t[1] = Fence /\ t[2] = "json"
    THEN JSONParse(StripClosing(StripOpening(t)))
    ELSE JSONParse(t)

\* strips the fence markers and parses the rest as JSON
parseMarkdownToJson(t) == JSONParse(StripClosing(StripOpening(t)))

(***************************************************************************)
(* Persistence (lines 94-105) and the responses.                           *)
(***************************************************************************)
\* new Date().toISOString()
Timestamps == {"2025-01-01T00:00:00.000Z"}

\* the ids the document store can assign
DocIds == {"doc1", "doc2"}

\* the attribute map handed to createDocument
DocumentData(t, now, urls, f) ==
    [tripDetails |-> JSONStringifyTrip(t), createdAt |-> now, imageUrls |-> urls, userId |-> f.userId]

NoDocument == [id |-> "", data |-> DocumentData(NoTrip, "", <<>>, NoFields)]

\* data({ error: 'Missing required fields' }, { status: 400 })
MissingFieldsResponse == [status |-> 400, body |-> [error |-> "Missing required fields"]]

\* SuccessResponse answering the owner's id in place of the document's
SuccessResponse_ownerId(doc) == [status |-> 200, body |-> [id |-> doc.data.userId.s]]

\* data({id: result.$id})
SuccessResponse(doc) == [status |-> 200, body |-> [id |-> doc.id]]

\* ErrorMessage without the instanceof test
ErrorMessage_always(e) == e.message

\* the catch clause
ErrorMessage(e) == IF e.isError THEN e.message ELSE "Failed to generate trip"

ErrorResponse(e) == [status |-> 500, body |-> [error |-> ErrorMessage(e)]]

NoResponse == [status |-> 0, body |-> [pending |-> TRUE]]

(***************************************************************************)
(* State of one invocation of the action.                                  *)
(***************************************************************************)
VARIABLES
    pc,              \* the await the handler is suspended at
    request,         \* the body of the incoming request
    text,            \* the text handed to parseMarkdownToJson (a temporary of line 81)
    interestsArray,  \* local of the same name
    trip,            \* local of the same name
    imageResponse,   \* local of the same name
    result,          \* the document createDocument resolved with
    response,        \* the response of the action
    genCalls,        \* prompts handed to generateContent
    fetchCalls,      \* image-search calls: url and query
    dbCalls,         \* attribute maps handed to createDocument
    store,           \* documents of the trips collection
    trace,           \* the stages of the handler, in the order they happened
    failStage,       \* the stage that threw or rejected, "" if none
    thrown,          \* the value the catch clause caught
    console,         \* what console.error was called with
    inv,             \* the concurrent invocations of the action
    session,         \* whether the browser holds an Appwrite session
    users,           \* documents of the users collection
    call,            \* the running calls of the auth functions
    form             \* the create-trip form and its submit handler

vars ==
    <<pc, request, text, interestsArray, trip, imageResponse, result, response,
      genCalls, fetchCalls, dbCalls, store, trace, failStage, thrown, console,
      inv, session, users, call, form>>

\* the state of one invocation, without the trips collection
invocation ==
    <<pc, request, text, interestsArray, trip, imageResponse, result, response,
      genCalls, fetchCalls, dbCalls, trace, failStage, thrown, console>>

\* the state outside the create-trip action
auth == <<session, users, call>>

NoThrown == [isError |-> FALSE, message |-> "nothing thrown"]

requestData == request.fields

\* no invocation of the action has started
InvocationIdle ==
    /\ pc = "idle"
    /\ request = [kind |-> "invalid", fields |-> NoFields]
    /\ text = NoText
    /\ interestsArray = <<>>
    /\ trip = NoTrip
    /\ imageResponse = NoImageResponse
    /\ result = NoDocument
    /\ response = NoResponse
    /\ genCalls = <<>>
    /\ fetchCalls = <<>>
    /\ dbCalls = <<>>
    /\ trace = <<>>
    /\ failStage = ""
    /\ thrown = NoThrown
    /\ console = <<>>

ConcIdle == inv = <<>>

AuthIdle == session = "none" /\ users = {} /\ call = <<>>

FormIdle == form = <<>>

Init == InvocationIdle /\ store = {} /\ ConcIdle /\ AuthIdle /\ FormIdle

\* the catch clause (lines 107-113): log and answer 500
Catch(e, stage) ==
    /\ console' = Append(console, "API Error: " \o (IF e.isError THEN e.message ELSE "Unknown error"))
    /\ response' = ErrorResponse(e)
    /\ thrown' = e
    /\ failStage' = stage
    /\ trace' = Append(trace, "responded")
    /\ pc' = "done"

\* the action is invoked with a request and awaits request.json()
Receive ==
    /\ pc = "idle"
    /\ \E b \in RequestBodies : request' = b
    /\ pc' = "json"
    /\ UNCHANGED <<text, thrown, interestsArray, trip, imageResponse, result, response,
                   genCalls, fetchCalls, dbCalls, store, trace, failStage, console>>
    /\ UNCHANGED <<inv, auth, form>>

\* request.json() rejects: the body is not JSON
RequestJsonRejects ==
    /\ pc = "json"
    /\ request.kind = "invalid"
    /\ Catch(BodySyntaxError, "body")
    /\ UNCHANGED <<text, request, interestsArray, trip, imageResponse, result,
                   genCalls, fetchCalls, dbCalls, store>>
    /\ UNCHANGED <<inv, auth, form>>

\* the body is the JSON value null: the destructuring of lines 10-18 throws
DestructureThrows ==
    /\ pc = "json"
    /\ request.kind = "null"
    /\ Catch(DestructureTypeError, "body")
    /\ UNCHANGED <<text, request, interestsArray, trip, imageResponse, result,
                   genCalls, fetchCalls, dbCalls, store>>
    /\ UNCHANGED <<inv, auth, form>>

\* lines 20-22: a required field is missing or falsy
RejectMissing ==
    /\ pc = "json"
    /\ request.kind = "object"
    /\ MissingRequired(requestData)
    /\ response' = MissingFieldsResponse
    /\ failStage' = "validation"
    /\ trace' = Append(trace, "responded")
    /\ pc' = "done"
    /\ UNCHANGED <<text, thrown, request, interestsArray, trip, imageResponse, result,
                   genCalls, fetchCalls, dbCalls, store, console>>
    /\ UNCHANGED <<inv, auth, form>>

\* CallGenerate starting the image search together with the text generation
CallGenerate_parallel ==
    /\ pc = "json"
    /\ request.kind = "object"
    /\ ~MissingRequired(requestData)
    /\ interestsArray' = InterestsArray(requestData.interests)
    /\ genCalls' = Append(genCalls, Prompt(requestData, interestsArray'))
    /\ fetchCalls' = Append(fetchCalls,
                            [url |-> ImageSearchUrl(requestData, interestsArray'),
                             query |-> ImageQuery(requestData, interestsArray')])
    /\ trace' = trace \o <<"validated", "generateContent", "fetch">>
    /\ pc' = "generate"
    /\ UNCHANGED <<text, thrown, request, trip, imageResponse, result, response,
                   dbCalls, store, failStage, console>>
    /\ UNCHANGED <<inv, auth, form>>

\* lines 25-79: normalise interests, build the prompt, call generateContent
CallGenerate ==
    /\ pc = "json"
    /\ request.kind = "object"
    /\ ~MissingRequired(requestData)
    /\ interestsArray' = InterestsArray(requestData.interests)
    /\ genCalls' = Append(genCalls, Prompt(requestData, interestsArray'))
    /\ trace' = trace \o <<"validated", "generateContent">>
    /\ pc' = "generate"
    /\ UNCHANGED <<text, thrown, request, trip, imageResponse, result, response,
                   fetchCalls, dbCalls, store, failStage, console>>
    /\ UNCHANGED <<inv, auth, form>>

\* GenerateRejects calling generateContent again in place of giving up
GenerateRejects_retry ==
    /\ pc = "generate"
    /\ Len(genCalls) < 3
    /\ genCalls' = Append(genCalls, genCalls[Len(genCalls)])
    /\ trace' = Append(trace, "generateContent")
    /\ UNCHANGED <<pc, text, thrown, request, interestsArray, trip, imageResponse, result,
                   response, fetchCalls, dbCalls, store, failStage, console>>
    /\ UNCHANGED <<inv, auth, form>>

\* generateContent rejects (or response.text() throws)
GenerateRejects ==
    /\ pc = "generate"
    /\ \E e \in GenErrors : Catch(e, "generate")
    /\ UNCHANGED <<text, request, interestsArray, trip, imageResponse, result,
                   genCalls, fetchCalls, dbCalls, store>>
    /\ UNCHANGED <<inv, auth, form>>

\* generateContent resolves (lines 77-81): the text goes to the parser
GenerateResolves ==
    /\ pc = "generate"
    /\ \E t \in RawTexts : text' = t
    /\ trace' = Append(trace, "generated")
    /\ pc' = "parse"
    /\ UNCHANGED <<request, interestsArray, trip, imageResponse, result, response,
                   genCalls, fetchCalls, dbCalls, store, failStage, thrown, console>>
    /\ UNCHANGED <<inv, auth, form>>

\* ParseThrows going on with an empty itinerary in place of throwing
ParseThrows_swallow ==
    /\ pc = "parse"
    /\ parseMarkdownToJson(text).threw
    /\ trip' = NoTrip
    /\ text' = NoText
    /\ fetchCalls' = Append(fetchCalls,
                            [url |-> ImageSearchUrl(requestData, interestsArray),
                             query |-> ImageQuery(requestData, interestsArray)])
    /\ trace' = trace \o <<"parsed", "fetch">>
    /\ pc' = "fetch"
    /\ UNCHANGED <<request, interestsArray, imageResponse, result, response,
                   genCalls, dbCalls, store, failStage, thrown, console>>
    /\ UNCHANGED <<inv, auth, form>>

\* the text does not parse
ParseThrows ==
    /\ pc = "parse"
    /\ parseMarkdownToJson(text).threw
    /\ Catch(MalformedItineraryError, "parse")
    /\ text' = NoText
    /\ UNCHANGED <<request, interestsArray, trip, imageResponse, result,
                   genCalls, fetchCalls, dbCalls, store>>
    /\ UNCHANGED <<inv, auth, form>>

\* the text parses, the image search is called (lines 81-85)
CallFetch ==
    /\ pc = "parse"
    /\ ~parseMarkdownToJson(text).threw
    /\ trip' = parseMarkdownToJson(text).value
    /\ text' = NoText
    /\ fetchCalls' = Append(fetchCalls,
                            [url |-> ImageSearchUrl(requestData, interestsArray),
                             query |-> ImageQuery(requestData, interestsArray)])
    /\ trace' = trace \o <<"parsed", "fetch">>
    /\ pc' = "fetch"
    /\ UNCHANGED <<request, interestsArray, imageResponse, result, response,
                   genCalls, dbCalls, store, failStage, thrown, console>>
    /\ UNCHANGED <<inv, auth, form>>

\* fetch rejects: network error
FetchRejects ==
    /\ pc = "fetch"
    /\ Catch(FetchTypeError, "fetch")
    /\ UNCHANGED <<text, request, interestsArray, trip, imageResponse, result,
                   genCalls, fetchCalls, dbCalls, store>>
    /\ UNCHANGED <<inv, auth, form>>

\* fetch resolves (lines 87-91): log a non-success status, await the body
FetchResolves ==
    /\ pc = "fetch"
    /\ \E r \in ImageResponses : imageResponse' = r
    /\ console' = IF imageResponse'.ok THEN console
                  ELSE Append(console, "Unsplash API error: " \o ToString(imageResponse'.status))
    /\ trace' = Append(trace, "fetched")
    /\ pc' = "imagejson"
    /\ UNCHANGED <<text, thrown, request, interestsArray, trip, result, response,
                   genCalls, fetchCalls, dbCalls, store, failStage>>
    /\ UNCHANGED <<inv, auth, form>>

\* imageResponse.json() rejects: the body is not JSON
ImageJsonRejects ==
    /\ pc = "imagejson"
    /\ ~imageResponse.json
    /\ Catch(ImageJsonSyntaxError, "imagejson")
    /\ UNCHANGED <<text, request, interestsArray, trip, imageResponse, result,
                   genCalls, fetchCalls, dbCalls, store>>
    /\ UNCHANGED <<inv, auth, form>>

\* line 92 throws on the shape of the body
ImageUrlsThrows ==
    /\ pc = "imagejson"
    /\ imageResponse.json
    /\ ImageUrlsOf(imageResponse.data).threw
    /\ Catch(ImageUrlsTypeError, "imageUrls")
    /\ UNCHANGED <<text, request, interestsArray, trip, imageResponse, result,
                   genCalls, fetchCalls, dbCalls, store>>
    /\ UNCHANGED <<inv, auth, form>>

\* lines 92-104: take the image urls and call createDocument
CallCreateDocument ==
    /\ pc = "imagejson"
    /\ imageResponse.json
    /\ ~ImageUrlsOf(imageResponse.data).threw
    /\ \E now \in Timestamps :
          dbCalls' = Append(dbCalls,
                            DocumentData(trip, now, ImageUrlsOf(imageResponse.data).value, requestData))
    /\ trace' = trace \o <<"enriched", "createDocument">>
    /\ pc' = "create"
    /\ UNCHANGED <<text, thrown, request, interestsArray, trip, imageResponse, result, response,
                   genCalls, fetchCalls, store, failStage, console>>
    /\ UNCHANGED <<inv, auth, form>>

\* CreateRejects retrying the write in place of giving up
CreateRejects_retry ==
    /\ pc = "create"
    /\ Len(dbCalls) < 3
    /\ dbCalls' = Append(dbCalls, dbCalls[Len(dbCalls)])
    /\ trace' = Append(trace, "createDocument")
    /\ UNCHANGED <<text, thrown, pc, request, interestsArray, trip, imageResponse, result, response,
                   genCalls, fetchCalls, store, failStage, console>>
    /\ UNCHANGED <<inv, auth, form>>

\* createDocument rejects: the store did not write
CreateRejects ==
    /\ pc = "create"
    /\ \E e \in CreateErrors : Catch(e, "create")
    /\ UNCHANGED <<text, request, interestsArray, trip, imageResponse, result,
                   genCalls, fetchCalls, dbCalls, store>>
    /\ UNCHANGED <<inv, auth, form>>

\* createDocument resolves with the stored document; line 105 answers its id
CreateResolves ==
    /\ pc = "create"
    /\ \E id \in DocIds \ {d.id : d \in store} :
          result' = [id |-> id, data |-> dbCalls[Len(dbCalls)]]
    /\ store' = store \cup {result'}
    /\ response' = SuccessResponse(result')
    /\ trace' = trace \o <<"created", "responded">>
    /\ pc' = "done"
    /\ UNCHANGED <<text, thrown, request, interestsArray, trip, imageResponse,
                   genCalls, fetchCalls, dbCalls, failStage, console>>
    /\ UNCHANGED <<inv, auth, form>>

Next ==
    \/ Receive
    \/ RequestJsonRejects
    \/ DestructureThrows
    \/ RejectMissing
    \/ CallGenerate
    \/ GenerateRejects
    \/ GenerateResolves
    \/ ParseThrows
    \/ CallFetch
    \/ FetchRejects
    \/ FetchResolves
    \/ ImageJsonRejects
    \/ ImageUrlsThrows
    \/ CallCreateDocument
    \/ CreateRejects
    \/ CreateResolves

Spec == Init /\ [][Next]_vars

(***************************************************************************)
(* Properties of the create-trip action.                                   *)
(***************************************************************************)
NoOutboundCall == genCalls = <<>> /\ fetchCalls = <<>> /\ dbCalls = <<>>

IsMissingFieldsResponse ==
    /\ response.status = 400
    /\ DOMAIN response.body = {"error"}
    /\ response.body.error = "Missing required fields"

\* the stages that happened before position i of the trace
Before(i) == {trace[j] : j \in 1..(i - 1)}

\* C1: a request whose body is JSON and in which one of the seven required
\* fields is missing or falsy is answered 400 {error: "Missing required
\* fields"} and makes no call to text generation, image search or
\* document creation.
C1_MissingFieldAnswers400 ==
    (/\ pc = "done"
     /\ request.kind # "invalid"
     /\ \E f \in FieldNames : ~Truthy(requestData[f]))
    => (IsMissingFieldsResponse /\ NoOutboundCall)

\* the image search failed: fetch rejected, or resolved with a non-success status
ImageSearchFailed ==
    \/ failStage = "fetch"
    \/ (\E i \in 1..Len(trace) : trace[i] = "fetched") /\ ~imageResponse.ok

\* C2: when the image search fails by a network error or a non-success
\* status (and the document store accepts the write), the action still calls
\* document creation, answers success and persists imageUrls = [].
C2_ImageFailureStillPersists ==
    (pc = "done" /\ ImageSearchFailed /\ failStage # "create")
    => (/\ Len(dbCalls) = 1
        /\ response.status = 200
        /\ dbCalls[1].imageUrls = <<>>)

\* C3: document creation is called at most once, only after validation, text
\* generation, parsing and image enrichment have completed, and a request
\* that fails in a stage before persistence has created no record.
C3_PersistOnceAtEnd ==
    /\ Len(dbCalls) <= 1
    /\ Cardinality({i \in 1..Len(trace) : trace[i] = "createDocument"}) = Len(dbCalls)
    /\ \A i \in 1..Len(trace) :
          trace[i] = "createDocument"
          => {"validated", "generated", "parsed", "fetched", "enriched"} \subseteq Before(i)
    /\ Cardinality(store) <= Len(dbCalls)
    /\ (response.status \in {400, 500} /\ failStage # "create")
       => (store = {} /\ dbCalls = <<>>)

\* createDocument has just been called, after every earlier stage
C3_Witness ==
    /\ pc = "create"
    /\ Len(dbCalls) = 1
    /\ trace = <<"validated", "generateContent", "generated", "parsed", "fetch",
                 "fetched", "enriched", "createDocument">>

\* C4: the body of a success response has exactly one field, id, whose value
\* is the id of the document the single createDocument call returned.
C4_SuccessBodyIsDocumentId ==
    response.status = 200
    => (/\ DOMAIN response.body = {"id"}
        /\ Len(dbCalls) = 1
        /\ result \in store
        /\ result.data = dbCalls[1]
        /\ response.body.id = result.id)

\* a success response has been sent for a stored document
C4_Witness ==
    /\ pc = "done"
    /\ response.status = 200
    /\ result.id \in DocIds
    /\ store = {result}

\* the request that carries interests as the one-element array [s]
AsOneElementArray(f) == [f EXCEPT !.interests = Arr(<<f.interests.s>>)]

\* C5: a request whose interests is the string s and the otherwise identical
\* request whose interests is [s] pass or fail validation identically and
\* produce the same prompt, image-search query and record contents.
C5_StringAndSingletonAgree ==
    (trace # <<>> /\ request.kind = "object" /\ requestData.interests.t = "string")
    => LET f == requestData
           g == AsOneElementArray(requestData)
           fa == InterestsArray(f.interests)
           ga == InterestsArray(g.interests)
       IN  /\ MissingRequired(f) = MissingRequired(g)
           /\ Prompt(f, fa) = Prompt(g, ga)
           /\ ImageQuery(f, fa) = ImageQuery(g, ga)
           /\ \A t \in TripValues, now \in Timestamps :
                 DocumentData(t, now, <<>>, f) = DocumentData(t, now, <<>>, g)

\* C6: every request for which text generation is called has a non-empty
\* interests sequence after normalisation, and a request whose interests is
\* the empty sequence is answered with the validation failure.
C6_InterestsNonEmpty ==
    /\ genCalls # <<>> => interestsArray # <<>>
    /\ (pc = "done" /\ request.kind = "object" /\ requestData.interests = Arr(<<>>))
       => IsMissingFieldsResponse

\* C7: every request for which text generation is called has an integer
\* numberOfDays between 1 and 10.
C7_NumberOfDaysInRange ==
    genCalls # <<>>
    => (/\ requestData.numberOfDays.t = "number"
        /\ requestData.numberOfDays.n >= 1
        /\ requestData.numberOfDays.n <= 10)

\* C8: the image-search query (of a request with at least one interest, none
\* of them the empty string) is country, every interest in order and
\* travelStyle joined with single spaces; Japan, [food, temples], Luxury
\* gives "Japan food temples Luxury".
C8_QueryJoinedWithSpaces ==
    \A i \in 1..Len(fetchCalls) :
        /\ (interestsArray # <<>> /\ \A k \in 1..Len(interestsArray) : interestsArray[k] # "")
           => fetchCalls[i].query =
              Join(<<TemplateStr(requestData.country)>> \o interestsArray
                   \o <<TemplateStr(requestData.travelStyle)>>, " ")
        /\ (/\ requestData.country = Str("Japan")
            /\ interestsArray = <<"food", "temples">>
            /\ requestData.travelStyle = Str("Luxury"))
           => fetchCalls[i].query = "Japan food temples Luxury"

\* the image-search body parsed to an object whose results field is absent,
\* null or not a sequence
ResultsMissingOrMalformed ==
    /\ \E i \in 1..Len(trace) : trace[i] = "fetched"
    /\ imageResponse.json
    /\ imageResponse.data.isObject
    /\ imageResponse.data.results.t # "array"

\* C9: with a missing or malformed results field image enrichment yields the
\* empty list and raises nothing, so the request proceeds to persistence.
C9_MalformedResultsDegrade ==
    (pc \in {"create", "done"} /\ ResultsMissingOrMalformed)
    => (/\ failStage # "imageUrls"
        /\ Len(dbCalls) = 1
        /\ dbCalls[1].imageUrls = <<>>)

\* C10: imageUrls of a persisted record has at most 3 elements, each the
\* string urls.regular of the image-search result at the same position.
C10_ImageUrlsAreUrlStrings ==
    \A d \in store :
        LET urls == d.data.imageUrls
            results == imageResponse.data.results.a
        IN  /\ Len(urls) <= 3
            /\ Len(urls) <= Len(results)
            /\ \A i \in 1..Len(urls) :
                  /\ urls[i].t = "string"
                  /\ urls[i] = results[i].regular

\* the events of the trace that equal e
Count(e) == Cardinality({i \in 1..Len(trace) : trace[i] = e})

Happened(e) == Count(e) > 0

IsErrorResponse ==
    /\ response.status = 500
    /\ DOMAIN response.body = {"error"}

\* C11: when the text is not valid JSON after fence stripping the request
\* ends at once with HTTP 500: the text generation is not repeated, nothing
\* further is called and no record is created.
C11_ParseFailureIsTerminal ==
    /\ [][(pc = "parse" /\ parseMarkdownToJson(text).threw)
          => (/\ pc' = "done"
              /\ response'.status = 500
              /\ DOMAIN response'.body = {"error"}
              /\ genCalls' = genCalls
              /\ fetchCalls' = <<>>
              /\ dbCalls' = <<>>
              /\ store' = store)]_vars
    /\ [](failStage = "parse" => (pc = "done" /\ Len(genCalls) = 1 /\ store = {}))

\* the parser threw and the action answered
C11_Witness ==
    /\ pc = "done"
    /\ failStage = "parse"
    /\ thrown = MalformedItineraryError
    /\ response.status = 500

\* C12: a failed text generation is not retried, neither image search nor
\* document creation follows it, and the response is HTTP 500 {error: message}.
C12_GenerationFailureNotRetried ==
    /\ Len(genCalls) <= 1
    /\ Count("generateContent") = Len(genCalls)
    /\ (pc = "done" /\ genCalls # <<>> /\ ~Happened("generated"))
       => (/\ fetchCalls = <<>>
           /\ dbCalls = <<>>
           /\ store = {}
           /\ IsErrorResponse
           /\ thrown \in GenErrors
           /\ response.body.error = (IF thrown.isError THEN thrown.message
                                     ELSE "Failed to generate trip"))

\* generateContent rejected and the action answered
C12_Witness ==
    /\ pc = "done"
    /\ failStage = "generate"
    /\ trace = <<"validated", "generateContent", "responded">>

\* the order of the stages of one request
StageOrder ==
    <<"validated", "generateContent", "generated", "parsed", "fetch", "fetched",
      "enriched", "createDocument", "created">>

\* the trace without the final response
Stages ==
    IF trace # <<>> /\ trace[Len(trace)] = "responded"
    THEN SubSeq(trace, 1, Len(trace) - 1) ELSE trace

\* C13: the outbound steps happen in the order text generation, parsing,
\* image search, persistence; each starts after the previous one returned,
\* so a call is in flight only as the last event and never with another.
C13_StagesInOrder ==
    /\ Len(Stages) <= Len(StageOrder)
    /\ \A i \in 1..Len(Stages) : Stages[i] = StageOrder[i]
    /\ Count("generateContent") = Len(genCalls)
    /\ Count("fetch") = Len(fetchCalls)
    /\ Count("createDocument") = Len(dbCalls)
    /\ (pc = "generate") = (trace # <<>> /\ trace[Len(trace)] = "generateContent")
    /\ (pc = "fetch") = (trace # <<>> /\ trace[Len(trace)] = "fetch")
    /\ (pc = "create") = (trace # <<>> /\ trace[Len(trace)] = "createDocument")

\* a request went through every stage
C13_Witness ==
    /\ pc = "done"
    /\ Stages = StageOrder
    /\ Len(genCalls) = 1 /\ Len(fetchCalls) = 1 /\ Len(dbCalls) = 1

\* C14: a failed document-store write ends the request with HTTP 500
\* {error: m}, m the message of the error or 'Failed to generate trip' for a
\* thrown value that is not an Error; no id is returned, the write is not retried.
C14_PersistenceFailure ==
    (pc = "done" /\ Happened("createDocument") /\ ~Happened("created"))
    => (/\ IsErrorResponse
        /\ thrown \in CreateErrors
        /\ response.body.error = (IF thrown.isError THEN thrown.message
                                  ELSE "Failed to generate trip")
        /\ Len(dbCalls) = 1
        /\ store = {})

\* createDocument rejected with a value that is not an Error
C14_Witness ==
    /\ pc = "done"
    /\ failStage = "create"
    /\ ~thrown.isError
    /\ response.body.error = "Failed to generate trip"

\* C15: the itinerary serialised in tripDetails of a persisted record has
\* duration = numberOfDays of the request (1..10) and that many entries.
C15_DurationMatchesRequest ==
    \A d \in store :
        (requestData.numberOfDays.t = "number" /\ requestData.numberOfDays.n \in 1..10)
        => d.data.tripDetails =
              JSONStringifyTrip([duration |-> requestData.numberOfDays.n,
                                 itinerary |-> requestData.numberOfDays.n])

\* C16: the parser returns the same structure for a JSON object given bare,
\* in a fenced block without language tag and in a fenced block tagged json.
C16_FencesParseAlike ==
    \A p \in Payloads :
        (pc = "parse" /\ text \in {Render(fc, p) : fc \in Fences} /\ ~JSONParse(<<p>>).threw)
        => /\ ~parseMarkdownToJson(text).threw
           /\ JSONStringifyTrip(parseMarkdownToJson(text).value) = p
           /\ \A fc \in Fences : parseMarkdownToJson(Render(fc, p)) = parseMarkdownToJson(text)

\* the parser is handed JSON in a fenced block tagged json
C16_Witness ==
    /\ pc = "parse"
    /\ Len(text) = 6
    /\ text[2] = "json"
    /\ ~parseMarkdownToJson(text).threw

(***************************************************************************)
(* Concurrent invocations of the action.  The handler has no module-level  *)
(* mutable state: every invocation has its own locals, and the only thing  *)
(* invocations share is the trips collection behind createDocument.       *)
(***************************************************************************)
NumInvocations == 2   \* invocations that run concurrently

Invocations == 1..NumInvocations

\* the ids the document store can assign to the records of the invocations
ConcDocIds == {"doc" \o ToString(k) : k \in Invocations}

ValidFields(uid) ==
    [country |-> Str("Japan"), numberOfDays |-> Num(10), travelStyle |-> Str("Luxury"),
     interests |-> Str("food"), budget |-> Str("Premium"), groupType |-> Str("Couple"),
     userId |-> Str(uid)]

\* the request bodies of the concurrent invocations
ConcBodies ==
    {[kind |-> "object", fields |-> ValidFields("user1")],
     [kind |-> "object", fields |-> ValidFields("user2")],
     [kind |-> "object", fields |-> [ValidFields("user1") EXCEPT !.country = Undefined]]}

\* the texts the model answers the concurrent invocations with
ConcTexts ==
    {Render("json", JSONStringifyTrip([duration |-> 10, itinerary |-> 2])),
     Render("none", "Sorry, I cannot help with that.")}

\* the image-search responses of the concurrent invocations
ConcImageResponses ==
    {[status |-> 200, ok |-> TRUE, json |-> TRUE,
      data |-> [isObject |-> TRUE,
                results |-> [t |-> "array", a |-> <<ResultUrl("https://images.unsplash.com/a")>>]]],
     [status |-> 403, ok |-> FALSE, json |-> FALSE, data |-> NoImageData]}

NoDbCall == DocumentData(NoTrip, "", <<>>, NoFields)

IdleInvocation ==
    [pc |-> "idle", request |-> [kind |-> "invalid", fields |-> NoFields],
     interestsArray |-> <<>>, trip |-> NoTrip, imageResponse |-> NoImageResponse,
     dbCall |-> NoDbCall, result |-> NoDocument, response |-> NoResponse]

ConcInit ==
    /\ InvocationIdle
    /\ FormIdle
    /\ AuthIdle
    /\ store = {}
    /\ inv = [i \in Invocations |-> IdleInvocation]

\* the catch clause of invocation i
ConcCatch(i, e) == [inv[i] EXCEPT !.response = ErrorResponse(e), !.pc = "done"]

\* invocation i starts with a request (lines 7-9)
ConcReceive(i) ==
    /\ inv[i].pc = "idle"
    /\ \E b \in ConcBodies : inv' = [inv EXCEPT ![i].request = b, ![i].pc = "json"]
    /\ UNCHANGED <<store, invocation, auth, form>>

\* lines 20-79 of invocation i: answer 400, or call generateContent
ConcValidate(i) ==
    /\ inv[i].pc = "json"
    /\ inv' = [inv EXCEPT ![i] =
                 IF MissingRequired(inv[i].request.fields)
                 THEN [@ EXCEPT !.response = MissingFieldsResponse, !.pc = "done"]
                 ELSE [@ EXCEPT !.interestsArray = InterestsArray(inv[i].request.fields.interests),
                                !.pc = "generate"]]
    /\ UNCHANGED <<store, invocation, auth, form>>

\* generateContent of invocation i rejects (lines 77-79)
ConcGenerateRejects(i) ==
    /\ inv[i].pc = "generate"
    /\ \E e \in GenErrors : inv' = [inv EXCEPT ![i] = ConcCatch(i, e)]
    /\ UNCHANGED <<store, invocation, auth, form>>

\* generateContent of invocation i resolves: parse, then call fetch (lines 77-85)
ConcGenerateResolves(i) ==
    /\ inv[i].pc = "generate"
    /\ \E t \in ConcTexts :
          inv' = [inv EXCEPT ![i] =
                     IF parseMarkdownToJson(t).threw
                     THEN ConcCatch(i, MalformedItineraryError)
                     ELSE [@ EXCEPT !.trip = parseMarkdownToJson(t).value, !.pc = "fetch"]]
    /\ UNCHANGED <<store, invocation, auth, form>>

\* ConcFetchRejects with a handler that goes back to text generation
ConcFetchRejects_regenerate(i) ==
    /\ inv[i].pc = "fetch"
    /\ inv' = [inv EXCEPT ![i].trip = NoTrip, ![i].pc = "generate"]
    /\ UNCHANGED <<store, invocation, auth, form>>

\* fetch of invocation i rejects (lines 83-85)
ConcFetchRejects(i) ==
    /\ inv[i].pc = "fetch"
    /\ inv' = [inv EXCEPT ![i] = ConcCatch(i, FetchTypeError)]
    /\ UNCHANGED <<store, invocation, auth, form>>

\* fetch of invocation i resolves (lines 83-91)
ConcFetchResolves(i) ==
    /\ inv[i].pc = "fetch"
    /\ \E r \in ConcImageResponses :
          inv' = [inv EXCEPT ![i].imageResponse = r, ![i].pc = "imagejson"]
    /\ UNCHANGED <<store, invocation, auth, form>>

\* imageResponse.json() of invocation i returns: throw, or call createDocument (lines 91-104)
ConcImageJsonReturns(i) ==
    /\ inv[i].pc = "imagejson"
    /\ \E now \in Timestamps :
          inv' = [inv EXCEPT ![i] =
                     IF ~inv[i].imageResponse.json THEN ConcCatch(i, ImageJsonSyntaxError)
                     ELSE IF ImageUrlsOf(inv[i].imageResponse.data).threw
                     THEN ConcCatch(i, ImageUrlsTypeError)
                     ELSE [@ EXCEPT !.dbCall = DocumentData(inv[i].trip, now,
                                                  ImageUrlsOf(inv[i].imageResponse.data).value,
                                                  inv[i].request.fields),
                                    !.pc = "create"]]
    /\ UNCHANGED <<store, invocation, auth, form>>

\* createDocument of invocation i rejects (lines 94-104)
ConcCreateRejects(i) ==
    /\ inv[i].pc = "create"
    /\ \E e \in CreateErrors : inv' = [inv EXCEPT ![i] = ConcCatch(i, e)]
    /\ UNCHANGED <<store, invocation, auth, form>>

\* ConcCreateResolves writing under an id derived from the request
ConcCreateResolves_ownerAsId(i) ==
    /\ inv[i].pc = "create"
    /\ LET doc == [id |-> inv[i].request.fields.userId.s, data |-> inv[i].dbCall]
       IN  /\ store' = {d \in store : d.id # doc.id} \cup {doc}
           /\ inv' = [inv EXCEPT ![i].result = doc,
                                 ![i].response = SuccessResponse(doc),
                                 ![i].pc = "done"]
    /\ UNCHANGED <<invocation, auth, form>>

\* createDocument of invocation i resolves: the store wrote a new document
\* under an id no other document has (lines 94-105)
ConcCreateResolves(i) ==
    /\ inv[i].pc = "create"
    /\ \E id \in ConcDocIds \ {d.id : d \in store} :
          LET doc == [id |-> id, data |-> inv[i].dbCall]
          IN  /\ store' = store \cup {doc}
              /\ inv' = [inv EXCEPT ![i].result = doc,
                                    ![i].response = SuccessResponse(doc),
                                    ![i].pc = "done"]
    /\ UNCHANGED <<invocation, auth, form>>

ConcNext ==
    \E i \in Invocations :
        \/ ConcReceive(i)
        \/ ConcValidate(i)
        \/ ConcGenerateRejects(i)
        \/ ConcGenerateResolves(i)
        \/ ConcFetchRejects(i)
        \/ ConcFetchResolves(i)
        \/ ConcImageJsonReturns(i)
        \/ ConcCreateRejects(i)
        \/ ConcCreateResolves(i)

SpecConc == ConcInit /\ [][ConcNext]_vars

\* the invocations that answered success
Succeeded == {i \in DOMAIN inv : inv[i].response.status = 200}

\* C17: under any interleaving the response of an invocation and the record
\* it persists depend only on its own request and its own call results; N
\* successful invocations create N separate records, none overwritten.
C17_InvocationsIndependent ==
    /\ [](/\ \A i \in Succeeded :
                /\ inv[i].result \in store
                /\ inv[i].response.body.id = inv[i].result.id
                /\ inv[i].result.data = inv[i].dbCall
                /\ inv[i].dbCall.userId = inv[i].request.fields.userId
                /\ inv[i].dbCall.tripDetails = JSONStringifyTrip(inv[i].trip)
                /\ inv[i].dbCall.imageUrls = ImageUrlsOf(inv[i].imageResponse.data).value
          /\ \A i \in Succeeded, j \in Succeeded : i # j => inv[i].result.id # inv[j].result.id
          /\ \A i \in DOMAIN inv :
                inv[i].response.status = 400 <=>
                   (inv[i].pc = "done" /\ MissingRequired(inv[i].request.fields))
          /\ Cardinality(store) = Cardinality(Succeeded))
    /\ [][store \subseteq store']_vars

\* every invocation succeeded, two of them for the same user
C17_Witness ==
    /\ Succeeded = Invocations
    /\ inv[1].request = inv[2].request
    /\ Cardinality(store) = NumInvocations

(***************************************************************************)
(* The auth functions: getUser, logoutUser (called by handleLogout of      *)
(* PageLayout), storeUserData with getExistingUser and getGooglePicture.   *)
(* They share the browser's Appwrite session and the users collection;     *)
(* each call has its own locals and is suspended at one await at a time.   *)
(***************************************************************************)
NumCallers == 2   \* calls of the auth functions that run concurrently

Callers == 1..NumCallers

SessionStates == {"none", "active"}

\* what account.get() resolves with: the account of the session
AccountUser == [t |-> "object", id |-> "acct1", name |-> "Omar", email |-> "omar@example.com"]

NullUser == [t |-> "null", id |-> "", name |-> "", email |-> ""]

AccountValues == {AccountUser}

\* !user
UserFalsy(u) == u.t # "object"

Unauthorized == Err("User (role: guests) missing scope (account)")

NetworkError == Err("Network request failed")

\* account.get() and account.deleteSession('current') reject for a guest,
\* and any request can fail on the network
SessionErrors == IF session = "none" THEN {Unauthorized, NetworkError} ELSE {NetworkError}

DatabaseErrors == {NetworkError}

NoAuthenticatedUser == Err("No authenticated user found")

\* the ids the document store can assign to user documents
UserDocIds == {"user" \o ToString(k) : k \in Callers}

\* userData of storeUserData as stored under a document id; userData has
\* no status
UserDocument(id, u, imageUrl, now) ==
    [id |-> id, accountId |-> u.id, name |-> u.name, email |-> u.email,
     imageUrl |-> imageUrl, JoinedAt |-> now, status |-> ""]

\* null where a user document is expected
NoUserDoc == [id |-> "", accountId |-> "", name |-> "", email |-> "",
              imageUrl |-> "", JoinedAt |-> "", status |-> ""]

\* Query.equal('accountId', user.$id) on the users collection
DocumentsOf(u) == {d \in users : d.accountId = u.id}

\* what getGooglePicture() returns: a picture url, or null
GooglePictureValues == {Null, Str("https://lh3.googleusercontent.com/a/photo")}

(* ---- getGooglePicture (server.ts lines 204-268): its values ---- *)

MaxPhotos == 2   \* photos in a People API answer

\* what account.getSession('current') resolves with
OAuthSessions ==
    {[provider |-> "google", providerAccessToken |-> "ya29.a0"],
     [provider |-> "google", providerAccessToken |-> ""],
     [provider |-> "email", providerAccessToken |-> ""]}

NoOAuthSession == [provider |-> "", providerAccessToken |-> ""]

\* the answers of the People API: status and ok
PeopleResponses == {[status |-> 200, ok |-> TRUE], [status |-> 401, ok |-> FALSE]}

NoPeopleResponse == [status |-> 0, ok |-> FALSE]

PhotoUrls == {"https://lh3.googleusercontent.com/a/one", "https://lh3.googleusercontent.com/a/two"}

\* a photo of the answer: metadata absent, or metadata.primary false or true
PhotoValues == {[metadata |-> m, url |-> u] : m \in {"absent", "secondary", "primary"}, u \in PhotoUrls}

PhotoLists == UNION {[1..n -> PhotoValues] : n \in 0..MaxPhotos}

\* what response.json() resolves with: null, an object without photos, or
\* an object with a list of photos
PeopleDataValues ==
    {[t |-> "null", hasPhotos |-> FALSE, photos |-> <<>>],
     [t |-> "object", hasPhotos |-> FALSE, photos |-> <<>>]}
    \cup {[t |-> "object", hasPhotos |-> TRUE, photos |-> s] : s \in PhotoLists}

NoPeopleData == [t |-> "undefined", hasPhotos |-> FALSE, photos |-> <<>>]

NoGoogleSession == Err("No active Google OAuth session found")

NoAccessToken == Err("No Google access token available")

PeopleApiError(r) == Err("Google People API error: " \o ToString(r.status))

PeopleJsonSyntaxError == Err("Unexpected token < in JSON at position 0")

PeopleDataTypeError == Err("Cannot read properties of null (reading 'photos')")

\* photo.metadata?.primary
IsPrimary(p) == p.metadata = "primary"

\* data.photos.find(photo => photo.metadata?.primary): the index of the
\* first match, 0 for undefined
FindPrimary(photos) ==
    LET I == {i \in 1..Len(photos) : IsPrimary(photos[i])}
    IN  IF I = {} THEN 0 ELSE CHOOSE i \in I : \A j \in I : i <= j

\* data.photos.find(...) || data.photos[0]
PrimaryPhoto(photos) ==
    IF FindPrimary(photos) # 0 THEN photos[FindPrimary(photos)] ELSE photos[1]

\* lines 250-259 on the parsed answer: what is returned, or that it threw
PictureOf(data) ==
    IF data.t = "null" THEN [threw |-> TRUE, value |-> Null]
    ELSE IF data.hasPhotos /\ Len(data.photos) > 0
    THEN [threw |-> FALSE, value |-> Str(PrimaryPhoto(data.photos).url)]
    ELSE [threw |-> FALSE, value |-> Null]

\* what a call has returned
Pending == [kind |-> "pending", to |-> "", doc |-> NoUserDoc]

ReturnsUndefined == [kind |-> "undefined", to |-> "", doc |-> NoUserDoc]

Redirect(to) == [kind |-> "redirect", to |-> to, doc |-> NoUserDoc]

ReturnsDocument(d) == [kind |-> "document", to |-> "", doc |-> d]

ReturnsPicture == [kind |-> "picture", to |-> "", doc |-> NoUserDoc]

IdleCall ==
    [op |-> "none", pc |-> "idle", user |-> NullUser, existingUser |-> NoUserDoc,
     listCalls |-> 0, documents |-> {}, listed |-> FALSE, imageUrl |-> "", deleted |-> FALSE,
     ret |-> Pending, thrown |-> NoThrown, navigated |-> FALSE, console |-> <<>>,
     oauth |-> NoOAuthSession, peopleResponse |-> NoPeopleResponse,
     data |-> NoPeopleData, parsed |-> FALSE, picture |-> Undefined,
     exisitingUser |-> NoUserDoc, caught |-> FALSE]

AuthInit ==
    /\ InvocationIdle
    /\ FormIdle
    /\ ConcIdle
    /\ store = {}
    /\ session \in SessionStates
    /\ users = {}
    /\ call = [c \in Callers |-> IdleCall]

\* console.log(label, e)
Logged(c, label, e) == Append(call[c].console, <<label, e.message>>)

(* ---- getUser (server.ts lines 99-134) ---- *)

getUser_Call(c) ==
    /\ call[c].pc = "idle"
    /\ call' = [call EXCEPT ![c].op = "getUser", ![c].pc = "gu_account"]
    /\ UNCHANGED <<session, users, invocation, store, inv, form>>

\* account.get() rejects: the catch clause logs and getUser returns undefined
getUser_AccountRejects(c) ==
    /\ call[c].pc = "gu_account"
    /\ \E e \in SessionErrors :
          call' = [call EXCEPT ![c].console = Logged(c, "", e),
                               ![c].ret = ReturnsUndefined,
                               ![c].pc = "done"]
    /\ UNCHANGED <<session, users, invocation, store, inv, form>>

\* account.get() resolves: redirect if !user, else call listDocuments
getUser_AccountResolves(c) ==
    /\ call[c].pc = "gu_account"
    /\ session = "active"
    /\ \E u \in AccountValues :
          call' = [call EXCEPT ![c] =
                      IF UserFalsy(u)
                      THEN [@ EXCEPT !.ret = Redirect("/sign-in"), !.pc = "done"]
                      ELSE [@ EXCEPT !.user = u, !.listCalls = @ + 1, !.pc = "gu_list"]]
    /\ UNCHANGED <<session, users, invocation, store, inv, form>>

\* listDocuments rejects: the catch clause logs and getUser returns undefined
getUser_ListRejects(c) ==
    /\ call[c].pc = "gu_list"
    /\ \E e \in DatabaseErrors :
          call' = [call EXCEPT ![c].console = Logged(c, "", e),
                               ![c].ret = ReturnsUndefined,
                               ![c].pc = "done"]
    /\ UNCHANGED <<session, users, invocation, store, inv, form>>

\* listDocuments resolves: documents is bound and the function ends
\* without a return statement
getUser_ListResolves(c) ==
    /\ call[c].pc = "gu_list"
    /\ call' = [call EXCEPT ![c].documents = DocumentsOf(call[c].user),
                            ![c].listed = TRUE,
                            ![c].ret = ReturnsUndefined,
                            ![c].pc = "done"]
    /\ UNCHANGED <<session, users, invocation, store, inv, form>>

(* ---- handleLogout (part_001 lines 9-12), logoutUser (server.ts 160-183) ---- *)

handleLogout_Call(c) ==
    /\ call[c].pc = "idle"
    /\ call' = [call EXCEPT ![c].op = "handleLogout", ![c].pc = "lo_delete"]
    /\ UNCHANGED <<session, users, invocation, store, inv, form>>

\* logoutUser_DeleteRejects with a catch clause that returns the redirect
logoutUser_DeleteRejects_swallow(c) ==
    /\ call[c].pc = "lo_delete"
    /\ \E e \in SessionErrors :
          call' = [call EXCEPT ![c].console = Logged(c, "Error logging out user:", e),
                               ![c].ret = Redirect("/sign-in"),
                               ![c].pc = "lo_navigate"]
    /\ UNCHANGED <<session, users, invocation, store, inv, form>>

\* deleteSession rejects: logoutUser logs and re-throws, the await in
\* handleLogout throws and navigate is not reached
logoutUser_DeleteRejects(c) ==
    /\ call[c].pc = "lo_delete"
    /\ \E e \in SessionErrors :
          call' = [call EXCEPT ![c].console = Logged(c, "Error logging out user:", e),
                               ![c].thrown = e,
                               ![c].pc = "done"]
    /\ UNCHANGED <<session, users, invocation, store, inv, form>>

\* deleteSession resolves: logoutUser returns the redirect
logoutUser_DeleteResolves(c) ==
    /\ call[c].pc = "lo_delete"
    /\ session = "active"
    /\ session' = "none"
    /\ call' = [call EXCEPT ![c].deleted = TRUE,
                            ![c].ret = Redirect("/sign-in"),
                            ![c].pc = "lo_navigate"]
    /\ UNCHANGED <<users, invocation, store, inv, form>>

\* handleLogout resumes after the await: navigate('/sign-in')
handleLogout_Navigate(c) ==
    /\ call[c].pc = "lo_navigate"
    /\ call' = [call EXCEPT ![c].navigated = TRUE, ![c].pc = "done"]
    /\ UNCHANGED <<session, users, invocation, store, inv, form>>

(* ---- storeUserData (server.ts 270-335), getExistingUser (353-392) ---- *)

storeUserData_Call(c) ==
    /\ call[c].pc = "idle"
    /\ call' = [call EXCEPT ![c].op = "storeUserData", ![c].pc = "su_account"]
    /\ UNCHANGED <<session, users, invocation, store, inv, form>>

\* the catch clause of storeUserData: log and re-throw
storeUserData_Catch(c, e) ==
    [call[c] EXCEPT !.console = Logged(c, "Error storing user data:", e),
                    !.thrown = e,
                    !.pc = "done"]

storeUserData_AccountRejects(c) ==
    /\ call[c].pc = "su_account"
    /\ \E e \in SessionErrors : call' = [call EXCEPT ![c] = storeUserData_Catch(c, e)]
    /\ UNCHANGED <<session, users, invocation, store, inv, form>>

\* account.get() resolves: throw if !user, else call getExistingUser, which
\* calls account.get() itself
storeUserData_AccountResolves(c) ==
    /\ call[c].pc = "su_account"
    /\ session = "active"
    /\ \E u \in AccountValues :
          call' = [call EXCEPT ![c] =
                      IF UserFalsy(u)
                      THEN storeUserData_Catch(c, NoAuthenticatedUser)
                      ELSE [@ EXCEPT !.user = u, !.pc = "ge_account"]]
    /\ UNCHANGED <<session, users, invocation, store, inv, form>>

\* the catch clause of getExistingUser: log and return null; storeUserData
\* then sees no existing user and calls getGooglePicture
getExistingUser_Catch(c, e) ==
    [call[c] EXCEPT !.console = Logged(c, "Error checking existing user:", e),
                    !.existingUser = NoUserDoc,
                    !.pc = "su_picture"]

getExistingUser_AccountRejects(c) ==
    /\ call[c].pc = "ge_account"
    /\ \E e \in SessionErrors : call' = [call EXCEPT ![c] = getExistingUser_Catch(c, e)]
    /\ UNCHANGED <<session, users, invocation, store, inv, form>>

getExistingUser_AccountResolves(c) ==
    /\ call[c].pc = "ge_account"
    /\ session = "active"
    /\ \E u \in AccountValues :
          call' = [call EXCEPT ![c] =
                      IF UserFalsy(u)
                      THEN [@ EXCEPT !.existingUser = NoUserDoc, !.pc = "su_picture"]
                      ELSE [@ EXCEPT !.listCalls = @ + 1, !.pc = "ge_list"]]
    /\ UNCHANGED <<session, users, invocation, store, inv, form>>

getExistingUser_ListRejects(c) ==
    /\ call[c].pc = "ge_list"
    /\ \E e \in DatabaseErrors : call' = [call EXCEPT ![c] = getExistingUser_Catch(c, e)]
    /\ UNCHANGED <<session, users, invocation, store, inv, form>>

\* listDocuments resolves with at most one document (Query.limit(1)):
\* getExistingUser returns documents[0] or null; storeUserData returns the
\* existing user, or goes on to getGooglePicture
getExistingUser_ListResolves(c) ==
    /\ call[c].pc = "ge_list"
    /\ \E d \in DocumentsOf(call[c].user) \cup {NoUserDoc} :
          /\ d = NoUserDoc <=> DocumentsOf(call[c].user) = {}
          /\ call' = [call EXCEPT ![c] =
                         IF d = NoUserDoc
                         THEN [@ EXCEPT !.listed = TRUE, !.pc = "su_picture"]
                         ELSE [@ EXCEPT !.listed = TRUE,
                                        !.documents = {d},
                                        !.existingUser = d,
                                        !.console = Append(@, <<"User already exists in database", "">>),
                                        !.ret = ReturnsDocument(d),
                                        !.pc = "done"]]
    /\ UNCHANGED <<session, users, invocation, store, inv, form>>

\* getGooglePicture returns (it never throws): imageUrl || ''
getGooglePicture_Returns(c) ==
    /\ call[c].pc = "su_picture"
    /\ \E p \in GooglePictureValues :
          call' = [call EXCEPT ![c].imageUrl = IF Truthy(p) THEN p.s ELSE "",
                               ![c].pc = "su_create"]
    /\ UNCHANGED <<session, users, invocation, store, inv, form>>

storeUserData_CreateRejects(c) ==
    /\ call[c].pc = "su_create"
    /\ \E e \in DatabaseErrors : call' = [call EXCEPT ![c] = storeUserData_Catch(c, e)]
    /\ UNCHANGED <<session, users, invocation, store, inv, form>>

\* createDocument resolves: a new user document under an unused id
storeUserData_CreateResolves(c) ==
    /\ call[c].pc = "su_create"
    /\ session = "active"
    /\ \E id \in UserDocIds \ {d.id : d \in users}, now \in Timestamps :
          LET doc == UserDocument(id, call[c].user, call[c].imageUrl, now)
          IN  /\ users' = users \cup {doc}
              /\ call' = [call EXCEPT ![c].console =
                                         Append(@, <<"User data stored successfully:", id>>),
                                      ![c].ret = ReturnsDocument(doc),
                                      ![c].pc = "done"]
    /\ UNCHANGED <<session, invocation, store, inv, form>>

AuthNext ==
    \E c \in Callers :
        \/ getUser_Call(c)
        \/ getUser_AccountRejects(c)
        \/ getUser_AccountResolves(c)
        \/ getUser_ListRejects(c)
        \/ getUser_ListResolves(c)
        \/ handleLogout_Call(c)
        \/ logoutUser_DeleteRejects(c)
        \/ logoutUser_DeleteResolves(c)
        \/ handleLogout_Navigate(c)
        \/ storeUserData_Call(c)
        \/ storeUserData_AccountRejects(c)
        \/ storeUserData_AccountResolves(c)
        \/ getExistingUser_AccountRejects(c)
        \/ getExistingUser_AccountResolves(c)
        \/ getExistingUser_ListRejects(c)
        \/ getExistingUser_ListResolves(c)
        \/ getGooglePicture_Returns(c)
        \/ storeUserData_CreateRejects(c)
        \/ storeUserData_CreateResolves(c)

SpecAuth == AuthInit /\ [][AuthNext]_vars

\* C18: after any interleaving of storeUserData calls for one account the
\* users collection holds at most one document with that accountId, and a
\* call that returned a document returned one of the collection.
C18_AtMostOneUserDocument ==
    /\ \A d1 \in users, d2 \in users : d1.accountId = d2.accountId => d1 = d2
    /\ \A c \in DOMAIN call :
          (call[c].op = "storeUserData" /\ call[c].ret.kind = "document")
          => /\ call[c].ret.doc \in users
             /\ call[c].ret.doc.accountId = call[c].user.id

\* the calls of handleLogout
LogoutCalls == {c \in DOMAIN call : call[c].op = "handleLogout"}

\* C19: logoutUser returns the redirect to /sign-in only after the session
\* was deleted; if the deletion fails the error is re-thrown, nothing is
\* returned and handleLogout does not navigate.
C19_RedirectOnlyAfterSessionDeleted ==
    /\ [](\A c \in LogoutCalls :
             /\ call[c].ret.kind = "redirect"
                   => (call[c].deleted /\ call[c].ret.to = "/sign-in" /\ ~call[c].thrown.isError)
             /\ call[c].thrown.isError
                   => (call[c].ret = Pending /\ ~call[c].navigated /\ ~call[c].deleted
                       /\ call[c].pc = "done")
             /\ call[c].navigated => call[c].deleted
             /\ call[c].pc = "done" => (call[c].thrown.isError \/ call[c].navigated))
    /\ [][\A c \in LogoutCalls :
             (call[c].ret # call'[c].ret) => (session = "active" /\ session' = "none")]_vars

\* one logout deleted the session and navigated, another one failed
C19_Witness ==
    \E c1 \in LogoutCalls, c2 \in LogoutCalls :
        /\ call[c1].navigated
        /\ call[c2].thrown.isError
        /\ call[c2].pc = "done"

\* C20: getUser returns the user's document when a session is
\* authenticated and a redirect to /sign-in when no user is authenticated.
C20_GetUserReturnsDocumentOrRedirects ==
    \A c \in DOMAIN call :
        (call[c].op = "getUser" /\ call[c].pc = "done")
        => /\ (call[c].listed /\ call[c].documents # {})
                 => (call[c].ret.kind = "document" /\ call[c].ret.doc \in call[c].documents)
           /\ call[c].console = << <<"", Unauthorized.message>> >>
                 => call[c].ret = Redirect("/sign-in")

(***************************************************************************)
(* getGooglePicture step by step (server.ts lines 204-268).  In SpecAuth   *)
(* the step getGooglePicture_Returns stands for a whole call.              *)
(***************************************************************************)
PictureCalls == {1, 2}

PictureInit ==
    /\ InvocationIdle
    /\ FormIdle
    /\ ConcIdle
    /\ store = {}
    /\ session \in SessionStates
    /\ users = {}
    /\ call = [c \in PictureCalls |-> IdleCall]

getGooglePicture_Call(c) ==
    /\ call[c].pc = "idle"
    /\ call' = [call EXCEPT ![c].op = "getGooglePicture", ![c].pc = "gp_session"]
    /\ UNCHANGED <<session, users, invocation, store, inv, form>>

\* getGooglePicture_Catch with a catch clause that re-throws
getGooglePicture_Catch_rethrow(c, e) ==
    [call[c] EXCEPT !.console = Logged(c, "Error fetching Google profile picture:", e),
                    !.thrown = e,
                    !.pc = "done"]

\* the catch clause (lines 261-267): log and return null
getGooglePicture_Catch(c, e) ==
    [call[c] EXCEPT !.console = Logged(c, "Error fetching Google profile picture:", e),
                    !.picture = Null,
                    !.ret = ReturnsPicture,
                    !.pc = "done"]

\* account.getSession('current') rejects (line 209)
getGooglePicture_SessionRejects(c) ==
    /\ call[c].pc = "gp_session"
    /\ \E e \in SessionErrors : call' = [call EXCEPT ![c] = getGooglePicture_Catch(c, e)]
    /\ UNCHANGED <<session, users, invocation, store, inv, form>>

\* account.getSession('current') resolves: throw unless it is a google
\* session with an access token, else call fetch (lines 209-236)
getGooglePicture_SessionResolves(c) ==
    /\ call[c].pc = "gp_session"
    /\ session = "active"
    /\ \E s \in OAuthSessions :
          call' = [call EXCEPT ![c] =
                      IF s.provider # "google"
                      THEN [getGooglePicture_Catch(c, NoGoogleSession) EXCEPT !.oauth = s]
                      ELSE IF s.providerAccessToken = ""
                      THEN [getGooglePicture_Catch(c, NoAccessToken) EXCEPT !.oauth = s]
                      ELSE [@ EXCEPT !.oauth = s, !.pc = "gp_fetch"]]
    /\ UNCHANGED <<session, users, invocation, store, inv, form>>

\* fetch rejects (lines 231-236)
getGooglePicture_FetchRejects(c) ==
    /\ call[c].pc = "gp_fetch"
    /\ call' = [call EXCEPT ![c] = getGooglePicture_Catch(c, FetchTypeError)]
    /\ UNCHANGED <<session, users, invocation, store, inv, form>>

\* fetch resolves: throw if !response.ok, else call response.json()
\* (lines 231-246)
getGooglePicture_FetchResolves(c) ==
    /\ call[c].pc = "gp_fetch"
    /\ \E r \in PeopleResponses :
          call' = [call EXCEPT ![c] =
                      IF ~r.ok
                      THEN [getGooglePicture_Catch(c, PeopleApiError(r)) EXCEPT !.peopleResponse = r]
                      ELSE [@ EXCEPT !.peopleResponse = r, !.pc = "gp_json"]]
    /\ UNCHANGED <<session, users, invocation, store, inv, form>>

\* response.json() rejects (line 246)
getGooglePicture_JsonRejects(c) ==
    /\ call[c].pc = "gp_json"
    /\ call' = [call EXCEPT ![c] = getGooglePicture_Catch(c, PeopleJsonSyntaxError)]
    /\ UNCHANGED <<session, users, invocation, store, inv, form>>

\* response.json() resolves: the url of the photo, or null (lines 246-259)
getGooglePicture_JsonResolves(c) ==
    /\ call[c].pc = "gp_json"
    /\ \E d \in PeopleDataValues :
          call' = [call EXCEPT ![c] =
                      IF PictureOf(d).threw
                      THEN [getGooglePicture_Catch(c, PeopleDataTypeError) EXCEPT
                               !.data = d, !.parsed = TRUE]
                      ELSE [@ EXCEPT !.data = d, !.parsed = TRUE,
                                     !.picture = PictureOf(d).value,
                                     !.ret = ReturnsPicture,
                                     !.pc = "done"]]
    /\ UNCHANGED <<session, users, invocation, store, inv, form>>

PictureNext ==
    \E c \in PictureCalls :
        \/ getGooglePicture_Call(c)
        \/ getGooglePicture_SessionRejects(c)
        \/ getGooglePicture_SessionResolves(c)
        \/ getGooglePicture_FetchRejects(c)
        \/ getGooglePicture_FetchResolves(c)
        \/ getGooglePicture_JsonRejects(c)
        \/ getGooglePicture_JsonResolves(c)

SpecPicture == PictureInit /\ [][PictureNext]_vars

\* the finished calls of getGooglePicture
PictureReturns == {c \in DOMAIN call : call[c].op = "getGooglePicture" /\ call[c].pc = "done"}

\* the call got no usable answer: no session, not a google session, no
\* access token, the People API call failed or answered a non-success
\* status, or the photo list is absent or empty
NoPictureAvailable(r) ==
    \/ r.oauth = NoOAuthSession
    \/ r.oauth.provider # "google"
    \/ r.oauth.providerAccessToken = ""
    \/ r.peopleResponse = NoPeopleResponse
    \/ ~r.peopleResponse.ok
    \/ ~r.parsed
    \/ r.data.t # "object"
    \/ ~r.data.hasPhotos
    \/ r.data.photos = <<>>

\* C21: getGooglePicture never throws; it returns null when no usable
\* answer was obtained, and otherwise the url of a photo marked primary, or
\* of the first photo when none is marked primary.
C21_GooglePictureNeverThrows ==
    /\ \A c \in DOMAIN call : call[c].op = "getGooglePicture" => ~call[c].thrown.isError
    /\ \A c \in PictureReturns :
          LET r == call[c]
              primaries == {i \in 1..Len(r.data.photos) : r.data.photos[i].metadata = "primary"}
          IN  /\ r.ret = ReturnsPicture
              /\ IF NoPictureAvailable(r) THEN r.picture = Null
                 ELSE IF primaries # {}
                 THEN \E i \in primaries : r.picture = Str(r.data.photos[i].url)
                 ELSE r.picture = Str(r.data.photos[1].url)

\* one call returned the url of a primary photo that is not the first
\* photo, another one returned null after the People API refused
C21_Witness ==
    \E c1 \in PictureReturns, c2 \in PictureReturns :
        /\ Len(call[c1].data.photos) = 2
        /\ call[c1].data.photos[1].metadata = "secondary"
        /\ call[c1].data.photos[2].metadata = "primary"
        /\ call[c1].data.photos[1].url # call[c1].data.photos[2].url
        /\ call[c1].picture = Str(call[c1].data.photos[2].url)
        /\ ~call[c2].peopleResponse.ok
        /\ call[c2].peopleResponse.status = 401
        /\ call[c2].picture = Null

(***************************************************************************)
(* Termination of the invocations.  Every await of the action either       *)
(* resolves or rejects, and the runtime resumes the handler: once the      *)
(* request of an invocation has arrived, a step of that invocation that    *)
(* can happen does.                                                        *)
(***************************************************************************)
ConcResumes(i) ==
    \/ ConcValidate(i)
    \/ ConcGenerateRejects(i)
    \/ ConcGenerateResolves(i)
    \/ ConcFetchRejects(i)
    \/ ConcFetchResolves(i)
    \/ ConcImageJsonReturns(i)
    \/ ConcCreateRejects(i)
    \/ ConcCreateResolves(i)

SpecLive ==
    /\ ConcInit
    /\ [][ConcNext]_vars
    /\ \A i \in Invocations : WF_vars(ConcResumes(i))

\* the position of an await in the text of the action
PcOrder == <<"idle", "json", "generate", "parse", "fetch", "imagejson", "create", "done">>

PcRank(p) == CHOOSE k \in 1..Len(PcOrder) : PcOrder[k] = p

\* the three answers of the action
IsFinalResponse(r) ==
    \/ r.status = 200 /\ DOMAIN r.body = {"id"}
    \/ r = MissingFieldsResponse
    \/ r.status = 500 /\ DOMAIN r.body = {"error"}

\* C22: every invocation ends with exactly one response, which is success
\* with an id, 400 or 500; a response once produced is final, and every
\* step moves the handler to a later await, never back to an earlier one.
C22_EveryInvocationAnswersOnce ==
    /\ \A i \in Invocations :
          (inv[i].pc # "idle") ~> (inv[i].pc = "done" /\ IsFinalResponse(inv[i].response))
    /\ [](\A i \in Invocations : (inv[i].response # NoResponse) <=> (inv[i].pc = "done"))
    /\ [][\A i \in Invocations :
             /\ inv[i].response # NoResponse => inv'[i].response = inv[i].response
             /\ inv'[i] # inv[i] => PcRank(inv'[i].pc) > PcRank(inv[i].pc)]_vars

\* every invocation has answered, one of them 400 and one of them success
C22_Witness ==
    /\ \A i \in DOMAIN inv : inv[i].pc = "done" /\ IsFinalResponse(inv[i].response)
    /\ \E i \in DOMAIN inv : inv[i].response = MissingFieldsResponse
    /\ \E i \in DOMAIN inv : inv[i].response.status = 200

(***************************************************************************)
(* The create-trip form (create-trip.tsx): its state formData, error,      *)
(* loading, and the submit handler handleSubmit (lines 44-134).  The       *)
(* handler reads the formData of the render it was invoked in; the form is *)
(* edited between submissions.                                             *)
(***************************************************************************)
FormKeys == {"country", "travelStyle", "interest", "budget", "groupType"}

\* what a select or combo box of the form can hold
FormStrings == {"", "Japan"}

\* Number(e.target.value) of the duration input
FormDurations == {-1, 0, 1, 10, 11}

\* useState of lines 32-39, with an empty list of countries
InitialFormData ==
    [country |-> "", travelStyle |-> "", interest |-> "", budget |-> "",
     duration |-> 0, groupType |-> ""]

\* an account object without $id, the case the guard of line 67 is written for
AnonymousUser == [t |-> "object", id |-> "", name |-> "", email |-> ""]

FormAccountValues == AccountValues \cup {AnonymousUser}

\* errors of the browser: name and message
FormErr(name, m) == [isError |-> TRUE, name |-> name, message |-> m]

NoFormError == [isError |-> FALSE, name |-> "", message |-> ""]

FailedToFetch == FormErr("TypeError", "Failed to fetch")

FormAccountErrors ==
    IF session = "none"
    THEN {FormErr("AppwriteException", Unauthorized.message), FailedToFetch}
    ELSE {FailedToFetch}

FormJsonSyntaxError == FormErr("SyntaxError", "Unexpected end of JSON input")

\* e.message.includes('fetch')
IncludesFetch(m) == m = "Failed to fetch"

\* the answers of POST /api/create-trip
ApiResponses ==
    {[status |-> 200, ok |-> TRUE, statusText |-> "OK"],
     [status |-> 400, ok |-> FALSE, statusText |-> "Bad Request"],
     [status |-> 500, ok |-> FALSE, statusText |-> "Internal Server Error"]}

NoApiResponse == [status |-> 0, ok |-> FALSE, statusText |-> ""]

ApiRequestFailed(r) ==
    FormErr("Error", "API request failed: " \o ToString(r.status) \o " " \o r.statusText)

\* what response.json() of a success answer resolves with
ApiResults == {[t |-> "object", id |-> "doc1"], [t |-> "object", id |-> ""], [t |-> "null", id |-> ""]}

NoApiResult == [t |-> "undefined", id |-> ""]

\* the body of the POST request (lines 90-98)
PostBody(fd, user) ==
    [country |-> fd.country, numberOfDays |-> fd.duration, travelStyle |-> fd.travelStyle,
     interests |-> fd.interest, budget |-> fd.budget, groupType |-> fd.groupType,
     userId |-> user.id]

\* the message set by the catch clause (lines 122-128)
SubmitErrorMessage(e) ==
    IF e.name = "TypeError" /\ IncludesFetch(e.message)
    THEN "Network error: Unable to connect to the server. Please check your connection."
    ELSE IF e.isError THEN "Error: " \o e.message
    ELSE "An unexpected error occurred. Please try again."

InitialForm ==
    [formData |-> InitialFormData, error |-> "", loading |-> FALSE, pc |-> "idle",
     user |-> NullUser, posted |-> <<>>, response |-> NoApiResponse, result |-> NoApiResult,
     navigatedTo |-> "", thrown |-> NoFormError]

FormInit ==
    /\ InvocationIdle
    /\ ConcIdle
    /\ store = {}
    /\ session \in SessionStates
    /\ users = {}
    /\ call = <<>>
    /\ form = InitialForm

\* no handler is running and the form is still shown
FormAtRest == form.pc \in {"idle", "done"} /\ form.navigatedTo = ""

\* handleChange (lines 135-137)
handleChange ==
    /\ FormAtRest
    /\ \/ \E key \in FormKeys, value \in FormStrings :
             form' = [form EXCEPT !.formData[key] = value]
       \/ \E value \in FormDurations : form' = [form EXCEPT !.formData.duration = value]
    /\ UNCHANGED <<invocation, store, inv, auth>>

\* handleSubmit_Call without the test of the duration
handleSubmit_Call_noRange ==
    /\ FormAtRest
    /\ ~form.loading
    /\ LET fd == form.formData
           started == [form EXCEPT !.posted = <<>>,
                                   !.response = NoApiResponse, !.result = NoApiResult,
                                   !.user = NullUser, !.thrown = NoFormError]
       IN  form' =
             IF \E key \in FormKeys : fd[key] = ""
             THEN [started EXCEPT !.error = "Please provide values for all fields",
                                  !.loading = FALSE, !.pc = "done"]
             ELSE [started EXCEPT !.loading = TRUE, !.pc = "fs_account"]
    /\ UNCHANGED <<invocation, store, inv, auth>>

\* the form is submitted (lines 44-66): setLoading(true), the two
\* validations, then account.get() is called.  The button is disabled
\* while loading.
handleSubmit_Call ==
    /\ FormAtRest
    /\ ~form.loading
    /\ LET fd == form.formData
           started == [form EXCEPT !.posted = <<>>,
                                   !.response = NoApiResponse, !.result = NoApiResult,
                                   !.user = NullUser, !.thrown = NoFormError]
       IN  form' =
             IF \E key \in FormKeys : fd[key] = ""
             THEN [started EXCEPT !.error = "Please provide values for all fields",
                                  !.loading = FALSE, !.pc = "done"]
             ELSE IF fd.duration < 1 \/ fd.duration > 10
             THEN [started EXCEPT !.error = "Duration must be between 1 and 10 days",
                                  !.loading = FALSE, !.pc = "done"]
             ELSE [started EXCEPT !.loading = TRUE, !.pc = "fs_account"]
    /\ UNCHANGED <<invocation, store, inv, auth>>

\* account.get() rejects (line 66, outside the try block): the handler
\* ends with the rejection and nothing resets loading
handleSubmit_AccountRejects ==
    /\ form.pc = "fs_account"
    /\ \E e \in FormAccountErrors : form' = [form EXCEPT !.thrown = e, !.pc = "done"]
    /\ UNCHANGED <<invocation, store, inv, auth>>

\* account.get() resolves (lines 66-99): return if !user.$id, else send
\* the POST request
handleSubmit_AccountResolves ==
    /\ form.pc = "fs_account"
    /\ \E u \in FormAccountValues :
          /\ u \in AccountValues => session = "active"
          /\ form' = IF u.id = ""
                     THEN [form EXCEPT !.user = u, !.loading = FALSE, !.pc = "done"]
                     ELSE [form EXCEPT !.user = u,
                                       !.posted = Append(@, PostBody(form.formData, u)),
                                       !.pc = "fs_fetch"]
    /\ UNCHANGED <<invocation, store, inv, auth>>

\* the catch clause and the finally clause (lines 118-132)
handleSubmit_Catch(e) ==
    [form EXCEPT !.error = SubmitErrorMessage(e), !.loading = FALSE, !.pc = "done"]

\* fetch rejects (lines 84-99)
handleSubmit_FetchRejects ==
    /\ form.pc = "fs_fetch"
    /\ form' = handleSubmit_Catch(FailedToFetch)
    /\ UNCHANGED <<invocation, store, inv, auth>>

\* fetch resolves (lines 84-109): read the text of a failure answer, or the
\* JSON of a success answer
handleSubmit_FetchResolves ==
    /\ form.pc = "fs_fetch"
    /\ \E r \in ApiResponses :
          form' = [form EXCEPT !.response = r, !.pc = IF r.ok THEN "fs_json" ELSE "fs_text"]
    /\ UNCHANGED <<invocation, store, inv, auth>>

\* response.text() of a failure answer returns (lines 104-107): the
\* handler throws, or the rejection of text() is caught
handleSubmit_TextReturns ==
    /\ form.pc = "fs_text"
    /\ \E resolves \in BOOLEAN :
          form' = handleSubmit_Catch(IF resolves THEN ApiRequestFailed(form.response)
                                     ELSE FailedToFetch)
    /\ UNCHANGED <<invocation, store, inv, auth>>

\* response.json() rejects (line 109)
handleSubmit_JsonRejects ==
    /\ form.pc = "fs_json"
    /\ form' = handleSubmit_Catch(FormJsonSyntaxError)
    /\ UNCHANGED <<invocation, store, inv, auth>>

\* response.json() resolves (lines 109-117, 130-132): navigate if the
\* result has an id, else set the error; finally setLoading(false)
handleSubmit_JsonResolves ==
    /\ form.pc = "fs_json"
    /\ \E res \in ApiResults :
          form' = IF res.t = "object" /\ res.id # ""
                  THEN [form EXCEPT !.result = res,
                                    !.navigatedTo = "/admin/trips/" \o res.id,
                                    !.loading = FALSE, !.pc = "done"]
                  ELSE [form EXCEPT !.result = res,
                                    !.error = "Trip was created but navigation failed. Please check the trips list.",
                                    !.loading = FALSE, !.pc = "done"]
    /\ UNCHANGED <<invocation, store, inv, auth>>

FormNext ==
    \/ handleChange
    \/ handleSubmit_Call
    \/ handleSubmit_AccountRejects
    \/ handleSubmit_AccountResolves
    \/ handleSubmit_FetchRejects
    \/ handleSubmit_FetchResolves
    \/ handleSubmit_TextReturns
    \/ handleSubmit_JsonRejects
    \/ handleSubmit_JsonResolves

SpecForm == FormInit /\ [][FormNext]_vars

\* C23: every execution of handleSubmit that has ended, on whatever path,
\* has left loading = false.
C23_SubmitLeavesLoadingFalse ==
    (form # <<>> /\ form.pc = "done") => ~form.loading

LoaderCalls == {1, 2}

\* a document of the account written before: status is set outside the
\* code of this repository
ExistingUserDocument(status) ==
    [UserDocument("user0", AccountUser, "", "2024-12-31T00:00:00.000Z") EXCEPT !.status = status]

UserStatuses == {"user", "admin"}

LoaderInit ==
    /\ InvocationIdle
    /\ FormIdle
    /\ ConcIdle
    /\ store = {}
    /\ session \in SessionStates
    /\ users \in {{}} \cup {{ExistingUserDocument(st)} : st \in UserStatuses}
    /\ call = [c \in LoaderCalls |-> IdleCall]

clientLoader_Call(c) ==
    /\ call[c].pc = "idle"
    /\ call' = [call EXCEPT ![c].op = "clientLoader", ![c].pc = "cl_account"]
    /\ UNCHANGED <<session, users, invocation, store, inv, form>>

\* the catch clause of clientLoader (lines 21-25)
clientLoader_Catch(c, e) ==
    [call[c] EXCEPT !.console = Logged(c, "Error loading client:", e),
                    !.caught = TRUE,
                    !.thrown = NoThrown,
                    !.ret = Redirect("/sign-in"),
                    !.pc = "cl_done"]

\* account.get() rejects (line 11)
clientLoader_AccountRejects(c) ==
    /\ call[c].pc = "cl_account"
    /\ \E e \in SessionErrors : call' = [call EXCEPT ![c] = clientLoader_Catch(c, e)]
    /\ UNCHANGED <<session, users, invocation, store, inv, form>>

\* account.get() resolves (lines 11-14): redirect if !user.$id, else call
\* getExistingUser
clientLoader_AccountResolves(c) ==
    /\ call[c].pc = "cl_account"
    /\ session = "active"
    /\ \E u \in AccountValues :
          call' = [call EXCEPT ![c] =
                      IF u.id = ""
                      THEN [@ EXCEPT !.ret = Redirect("/sign-in"), !.pc = "cl_done"]
                      ELSE [@ EXCEPT !.user = u, !.pc = "cl_ge_account"]]
    /\ UNCHANGED <<session, users, invocation, store, inv, form>>

\* lines 16-20 once getExistingUser has returned e (NoUserDoc for null):
\* redirect a user, return an existing document, or call storeUserData
clientLoader_Existing(c, e) ==
    IF e.status = "user"
    THEN [call[c] EXCEPT !.exisitingUser = e, !.ret = Redirect("/"), !.pc = "cl_done"]
    ELSE IF e.id # ""
    THEN [call[c] EXCEPT !.exisitingUser = e, !.ret = ReturnsDocument(e), !.pc = "cl_done"]
    ELSE [call[c] EXCEPT !.exisitingUser = e, !.pc = "su_account"]

\* the catch clause of getExistingUser, called by clientLoader: log and
\* return null
clientLoader_ExistingCatch(c, e) ==
    [clientLoader_Existing(c, NoUserDoc) EXCEPT
        !.console = Logged(c, "Error checking existing user:", e)]

\* getExistingUser's account.get() rejects (server.ts line 358)
clientLoader_ExistingAccountRejects(c) ==
    /\ call[c].pc = "cl_ge_account"
    /\ \E e \in SessionErrors : call' = [call EXCEPT ![c] = clientLoader_ExistingCatch(c, e)]
    /\ UNCHANGED <<session, users, invocation, store, inv, form>>

\* getExistingUser's account.get() resolves (server.ts lines 358-377)
clientLoader_ExistingAccountResolves(c) ==
    /\ call[c].pc = "cl_ge_account"
    /\ session = "active"
    /\ \E u \in AccountValues :
          call' = [call EXCEPT ![c] =
                      IF UserFalsy(u) THEN clientLoader_Existing(c, NoUserDoc)
                      ELSE [@ EXCEPT !.listCalls = @ + 1, !.pc = "cl_ge_list"]]
    /\ UNCHANGED <<session, users, invocation, store, inv, form>>

\* getExistingUser's listDocuments rejects (server.ts lines 369-391)
clientLoader_ExistingListRejects(c) ==
    /\ call[c].pc = "cl_ge_list"
    /\ \E e \in DatabaseErrors : call' = [call EXCEPT ![c] = clientLoader_ExistingCatch(c, e)]
    /\ UNCHANGED <<session, users, invocation, store, inv, form>>

\* getExistingUser's listDocuments resolves (server.ts lines 369-382):
\* documents[0] or null
clientLoader_ExistingListResolves(c) ==
    /\ call[c].pc = "cl_ge_list"
    /\ \E d \in DocumentsOf(call[c].user) \cup {NoUserDoc} :
          /\ d = NoUserDoc <=> DocumentsOf(call[c].user) = {}
          /\ call' = [call EXCEPT ![c] = clientLoader_Existing(c, d)]
    /\ UNCHANGED <<session, users, invocation, store, inv, form>>

\* storeUserData, called at line 20, has returned or thrown
clientLoader_StoreReturns(c) ==
    /\ call[c].op = "clientLoader"
    /\ call[c].pc = "done"
    /\ call' = [call EXCEPT ![c] =
                   IF call[c].thrown # NoThrown
                   THEN clientLoader_Catch(c, call[c].thrown)
                   ELSE [@ EXCEPT !.pc = "cl_done"]]
    /\ UNCHANGED <<session, users, invocation, store, inv, form>>

LoaderNext ==
    \E c \in LoaderCalls :
        \/ clientLoader_Call(c)
        \/ clientLoader_AccountRejects(c)
        \/ clientLoader_AccountResolves(c)
        \/ clientLoader_ExistingAccountRejects(c)
        \/ clientLoader_ExistingAccountResolves(c)
        \/ clientLoader_ExistingListRejects(c)
        \/ clientLoader_ExistingListResolves(c)
        \/ storeUserData_AccountRejects(c)
        \/ storeUserData_AccountResolves(c)
        \/ getExistingUser_AccountRejects(c)
        \/ getExistingUser_AccountResolves(c)
        \/ getExistingUser_ListRejects(c)
        \/ getExistingUser_ListResolves(c)
        \/ getGooglePicture_Returns(c)
        \/ storeUserData_CreateRejects(c)
        \/ storeUserData_CreateResolves(c)
        \/ clientLoader_StoreReturns(c)

SpecLoader == LoaderInit /\ [][LoaderNext]_vars

\* the finished calls of clientLoader
LoaderReturns == {c \in DOMAIN call : call[c].op = "clientLoader" /\ call[c].pc = "cl_done"}

\* C25: clientLoader returns a document only to an account that has no
\* document of status 'user'; it redirects to /sign-in without an account
\* id or after an error it caught, to / only for a document of status
\* 'user', and otherwise returns the existing document or the result of
\* storeUserData.
C25_LoaderGuardsAdmin ==
    \A c \in LoaderReturns :
        LET r == call[c]
        IN  /\ r.ret.kind \in {"redirect", "document"}
            /\ r.ret.kind = "redirect" => r.ret.to \in {"/sign-in", "/"}
            /\ (r.user.id = "" \/ r.caught) => r.ret = Redirect("/sign-in")
            /\ r.ret = Redirect("/") => r.exisitingUser.status = "user"
            /\ r.ret.kind = "document" =>
                  /\ r.ret.doc \in users
                  /\ r.ret.doc.accountId = r.user.id
                  /\ ~\E d \in users : d.accountId = r.user.id /\ d.status = "user"

====
